---- MODULE Spec2Model ----
(***************************************************************************)
(* gopi: the HTTP file gateway of main.go.  The state is the filesystem    *)
(* the handlers operate on, the requests in flight (one record per         *)
(* connection, holding the handler's local variables and its position),    *)
(* and the process lifecycle (signal channel, shutdown goroutine, main).   *)
(* Every filesystem call of a handler is one step, so that concurrent      *)
(* handlers interleave between their system calls as goroutines do.        *)
(***************************************************************************)
EXTENDS Naturals, Sequences, FiniteSets, TLC

VARIABLES fs, req, nextId, quit, sd, mainPc

vars == <<fs, req, nextId, quit, sd, mainPc>>

(* ------------------------------ bounds -------------------------------- *)

\* Requests served over the life of the process.
MaxReq == 3
\* Connections the server handles at the same time.
MaxConc == 2
\* File parts in one multipart form.
MaxParts == 2
\* Size of an uploaded part, in chunks written by io.Copy.
MaxSize == 2

Slots == 1..MaxConc

(* ------------------------------ inputs -------------------------------- *)

\* dirPrefix made absolute (filepath.Abs): /srv/data
dirPrefix == <<"srv", "data">>

NoName == "<none>"
DirNames == {"d"}
FileNames == {"f", "g"}

\* A multipart file part: file.Filename, file.Size.
Parts == [Filename : FileNames, Size : {MaxSize}]

PartSeqs == UNION {[1..n -> Parts] : n \in 0..MaxParts}

\* A POST body: unparsable, or the "name" values (absent or one name) and
\* the file parts in the order the handler's loops visit them.
BadForm == [ok |-> FALSE, name |-> NoName, files |-> <<>>]
NoNameForm == [ok |-> TRUE, name |-> NoName, files |-> <<>>]
Forms == {BadForm, NoNameForm} \cup [ok : {TRUE}, name : DirNames, files : PartSeqs]

\* r.URL.Path split at its slashes: abs is the leading slash.
\*   "/" = [abs TRUE, segs <<>>]     "" = [abs FALSE, segs <<>>]
\*   "*" = [abs FALSE, segs <<"*">>] "/*" = [abs TRUE, segs <<"*">>]
Url(a, s) == [abs |-> a, segs |-> s]
UrlPaths ==
    { Url(TRUE, <<>>), Url(FALSE, <<>>), Url(FALSE, <<"*">>), Url(TRUE, <<"*">>),
      Url(TRUE, <<"d", "..">>), Url(TRUE, <<"d">>), Url(TRUE, <<"d", "f">>),
      Url(TRUE, <<"..">>), Url(TRUE, <<"..", "out">>) }

(* ---------------------------- path algebra ---------------------------- *)

\* filepath.Clean of base/segs: empty and "." elements dropped, ".." removes
\* the element before it, and a ".." at the filesystem root is dropped.
RECURSIVE CleanFrom(_, _)
CleanFrom(stack, segs) ==
    IF segs = <<>> THEN stack
    ELSE LET s == Head(segs) IN
         IF s \in {"", "."} THEN CleanFrom(stack, Tail(segs))
         ELSE IF s = ".." THEN
              CleanFrom(IF stack = <<>> THEN stack ELSE SubSeq(stack, 1, Len(stack) - 1),
                        Tail(segs))
         ELSE CleanFrom(Append(stack, s), Tail(segs))

\* filepath.Join(dirPrefix, elems...), as the absolute path the OS resolves.
Join(base, segs) == CleanFrom(base, segs)

Parent(p) == SubSeq(p, 1, Len(p) - 1)

IsPrefix(p, q) == Len(p) <= Len(q) /\ SubSeq(q, 1, Len(p)) = p

(* ----------------------------- filesystem ----------------------------- *)

\* A node: a directory, or a file with the identity of its inode (the
\* request and part that created it) and the chunks written to it.
DirNode == [kind |-> "dir", ino |-> <<0, 0>>, data |-> <<>>]
FileNode(ino, data) == [kind |-> "file", ino |-> ino, data |-> data]

Exists(f, p) == p \in DOMAIN f
IsDir(f, p) == Exists(f, p) /\ f[p].kind = "dir"
IsFile(f, p) == Exists(f, p) /\ f[p].kind = "file"

InitFS ==
    (<<>> :> DirNode) @@ (<<"srv">> :> DirNode) @@ (<<"srv", "data">> :> DirNode)
    @@ (<<"srv", "out">> :> FileNode(<<0, 1>>, <<>>))

\* os.Stat: err == nil
StatOK(f, p) == Exists(f, p)

\* os.Mkdir: "ok", "exist" (os.IsExist) or "other"
MkdirErr(f, p) ==
    IF Exists(f, p) THEN "exist"
    ELSE IF Len(p) > 0 /\ IsDir(f, Parent(p)) THEN "ok"
    ELSE "other"

\* The directory is reported created and is not.
MkdirNothing(f, p) == f

Mkdir(f, p) == IF MkdirErr(f, p) = "ok" THEN f @@ (p :> DirNode) ELSE f

\* The open without O_EXCL: an existing file is opened too.
CreateNoExcl(f, p) == Len(p) > 0 /\ IsDir(f, Parent(p))

\* os.OpenFile(O_WRONLY|O_CREATE|O_EXCL): err == nil
CreateOK(f, p) == ~Exists(f, p) /\ Len(p) > 0 /\ IsDir(f, Parent(p))

Create(f, p, ino) == f @@ (p :> FileNode(ino, <<>>))

\* A write through the descriptor dst: it reaches the inode opened, wherever
\* (and whether) that inode is still linked.
Write(f, ino, chunk) ==
    [q \in DOMAIN f |->
        IF f[q].kind = "file" /\ f[q].ino = ino
        THEN [f[q] EXCEPT !.data = Append(@, chunk)]
        ELSE f[q]]

Without(f, gone) == [q \in DOMAIN f \ gone |-> f[q]]

Subtree(f, p) == {q \in DOMAIN f : IsPrefix(p, q)}

\* os.Remove: a file, or an empty directory
RemoveOK(f, p) == Exists(f, p) /\ Subtree(f, p) = {p}

Remove(f, p) == IF RemoveOK(f, p) THEN Without(f, {p}) ELSE f

\* os.Remove called for a directory too.
RemoveNotAll(f, p) == Remove(f, p)

\* os.RemoveAll: the path and everything below it; nil if it is not there
RemoveAll(f, p) == Without(f, Subtree(f, p))

(* ------------------------------ requests ------------------------------ *)

NoResp == [code |-> 0, body |-> ""]
Resp(c, b) == [code |-> c, body |-> b]

Idle ==
    [pc |-> "idle", method |-> "", id |-> 0, form |-> BadForm, url |-> Url(FALSE, <<>>),
     i |-> 0, writtenSize |-> 0, err |-> FALSE, skipped |-> {}, isDir |-> FALSE,
     resp |-> NoResp]

Active(r) == req[r].pc \notin {"idle", "done"}

Serving == mainPc = "serve"

\* The part the loop is at, and its destination.
File(r) == req[r].form.files[req[r].i]
FilePathOf(q, j) == Join(dirPrefix, <<q.form.name, q.form.files[j].Filename>>)
filePath(r) == FilePathOf(req[r], req[r].i)

Chunk(r) == <<req[r].id, req[r].i, req[r].writtenSize + 1>>
Content(id, j, n) == [k \in 1..n |-> <<id, j, k>>]

Reply(r, c, b) == req' = [req EXCEPT ![r].pc = "done", ![r].resp = Resp(c, b)]

Init ==
    /\ fs = InitFS
    /\ req = [r \in Slots |-> Idle]
    /\ nextId = 1
    /\ quit = 0
    /\ sd = "wait"
    /\ mainPc = "serve"

\* The listener is open and the connection r is free (the lowest free one
\* is taken: connections are interchangeable).
CanAccept(r) ==
    /\ Serving /\ sd = "wait"
    /\ nextId <= MaxReq
    /\ req[r].pc = "idle"
    /\ \A s \in Slots : s < r => req[s].pc # "idle"

\* The server accepts a connection and routes its request to "POST /".
AcceptPost(r) ==
    /\ CanAccept(r)
    /\ \E form \in Forms :
         req' = [req EXCEPT ![r] = [Idle EXCEPT !.pc = "post", !.method = "POST",
                                                !.id = nextId, !.form = form]]
    /\ nextId' = nextId + 1
    /\ UNCHANGED <<fs, quit, sd, mainPc>>

\* The server accepts a connection and routes its request to "DELETE /".
AcceptDelete(r) ==
    /\ CanAccept(r)
    /\ \E url \in UrlPaths :
         req' = [req EXCEPT ![r] = [Idle EXCEPT !.pc = "delete", !.method = "DELETE",
                                                !.id = nextId, !.url = url]]
    /\ nextId' = nextId + 1
    /\ UNCHANGED <<fs, quit, sd, mainPc>>

\* The response is written and the connection goes idle.
Finish(r) ==
    /\ Serving
    /\ req[r].pc = "done"
    /\ req' = [req EXCEPT ![r] = Idle]
    /\ UNCHANGED <<fs, nextId, quit, sd, mainPc>>

(* --------------------------- POST / handler --------------------------- *)

\* ParseMultipartForm, the "name" field and os.Mkdir.
PostForm(r) ==
    LET q == req[r]
        dir == Join(dirPrefix, <<q.form.name>>)
    IN
    /\ Serving
    /\ q.pc = "post"
    /\ IF ~q.form.ok THEN
            Reply(r, 400, "Unable to parse form") /\ fs' = fs
       ELSE IF q.form.name = NoName THEN
            Reply(r, 400, "Directory name not provided") /\ fs' = fs
       ELSE IF MkdirErr(fs, dir) = "other" THEN
            Reply(r, 500, "Unable to create directory") /\ fs' = fs
       ELSE /\ fs' = Mkdir(fs, dir)
            /\ req' = [req EXCEPT ![r].pc = "open", ![r].i = 1]
    /\ UNCHANGED <<nextId, quit, sd, mainPc>>

\* The head of the loop over the file parts: after the last part the 200
\* response; otherwise file.Open, which can fail (the part is skipped).
PostOpen(r) ==
    LET q == req[r] IN
    /\ Serving
    /\ q.pc = "open"
    /\ IF q.i > Len(q.form.files) THEN
            Reply(r, 200, "Form data received and printed")
       ELSE \/ req' = [req EXCEPT ![r].skipped = @ \cup {q.i}, ![r].i = @ + 1]
            \/ req' = [req EXCEPT ![r].pc = "stat"]
    /\ UNCHANGED <<fs, nextId, quit, sd, mainPc>>

\* The existence check left to the exclusive create.
PostStatNoCheck(r) ==
    /\ Serving
    /\ req[r].pc = "stat"
    /\ req' = [req EXCEPT ![r].pc = "create"]
    /\ UNCHANGED <<fs, nextId, quit, sd, mainPc>>

\* os.Stat(filePath): the existence check.
PostStat(r) ==
    /\ Serving
    /\ req[r].pc = "stat"
    /\ IF StatOK(fs, filePath(r)) THEN
            Reply(r, 409, "File already exists")
       ELSE req' = [req EXCEPT ![r].pc = "create"]
    /\ UNCHANGED <<fs, nextId, quit, sd, mainPc>>

\* os.OpenFile(filePath, O_WRONLY|O_CREATE|O_EXCL, 0444)
PostCreate(r) ==
    /\ Serving
    /\ req[r].pc = "create"
    /\ IF CreateOK(fs, filePath(r)) THEN
            /\ fs' = Create(fs, filePath(r), <<req[r].id, req[r].i>>)
            /\ req' = [req EXCEPT ![r].pc = "copy", ![r].writtenSize = 0, ![r].err = FALSE]
       ELSE /\ Reply(r, 500, "Unable to create file")
            /\ fs' = fs
    /\ UNCHANGED <<nextId, quit, sd, mainPc>>

\* io.Copy(dst, src): one chunk written through dst.
PostCopy(r) ==
    /\ Serving
    /\ req[r].pc = "copy"
    /\ req[r].writtenSize < File(r).Size
    /\ fs' = Write(fs, <<req[r].id, req[r].i>>, Chunk(r))
    /\ req' = [req EXCEPT ![r].writtenSize = @ + 1]
    /\ UNCHANGED <<nextId, quit, sd, mainPc>>

\* io.Copy returns what it has written so far, with an error (a failed
\* read or write) or without one (the source at its end, or short).
PostCopyReturn(r) ==
    /\ Serving
    /\ req[r].pc = "copy"
    /\ \E e \in BOOLEAN : req' = [req EXCEPT ![r].pc = "check", ![r].err = e]
    /\ UNCHANGED <<fs, nextId, quit, sd, mainPc>>

\* The size comparison left out.
CopyFailedErrOnly(err, writtenSize, size) == err

\* err != nil || writtenSize != file.Size
CopyFailed(err, writtenSize, size) == err \/ writtenSize # size

\* The check of the copy's result: on failure os.Remove(filePath) and 500,
\* otherwise on to the next part.
PostCheck(r) ==
    /\ Serving
    /\ req[r].pc = "check"
    /\ IF CopyFailed(req[r].err, req[r].writtenSize, File(r).Size) THEN
            /\ fs' = Remove(fs, filePath(r))
            /\ Reply(r, 500, "Error copying file")
       ELSE /\ fs' = fs
            /\ req' = [req EXCEPT ![r].pc = "open", ![r].i = @ + 1]
    /\ UNCHANGED <<nextId, quit, sd, mainPc>>

(* -------------------------- DELETE / handler -------------------------- *)

\* relPath == "/" || relPath == "" || relPath == "*" || relPath == "/*"
RootOrWildcard(relPath) ==
    relPath \in {Url(TRUE, <<>>), Url(FALSE, <<>>), Url(FALSE, <<"*">>), Url(TRUE, <<"*">>)}

\* The comparison of the resolved paths left out.
NeverPrefixItself(absPrefix, absPath) == FALSE

\* absPrefix == absPath
IsPrefixItself(absPrefix, absPath) == absPrefix = absPath

deletePath(r) == Join(dirPrefix, req[r].url.segs)

\* The guards and os.Stat(path).
DeleteCheck(r) ==
    LET relPath == req[r].url
        path == deletePath(r)
    IN
    /\ Serving
    /\ req[r].pc = "delete"
    /\ IF RootOrWildcard(relPath) THEN
            Reply(r, 403, "Refusing to delete root or wildcard path")
       ELSE IF IsPrefixItself(dirPrefix, path) THEN
            Reply(r, 403, "Refusing to delete root directory")
       ELSE IF RootOrWildcard(relPath) THEN
            Reply(r, 403, "Invalid delete path")
       ELSE IF ~StatOK(fs, path) THEN
            Reply(r, 404, "File or directory not found")
       ELSE req' = [req EXCEPT ![r].pc = "remove", ![r].isDir = IsDir(fs, path)]
    /\ UNCHANGED <<fs, nextId, quit, sd, mainPc>>

\* os.RemoveAll(path) for a directory, os.Remove(path) for a file.
DeleteRemove(r) ==
    LET path == deletePath(r)
        removeErr == IF req[r].isDir THEN FALSE ELSE ~RemoveOK(fs, path)
    IN
    /\ Serving
    /\ req[r].pc = "remove"
    /\ fs' = IF req[r].isDir THEN RemoveAll(fs, path) ELSE Remove(fs, path)
    /\ IF removeErr THEN Reply(r, 500, "Unable to delete")
       ELSE Reply(r, 200, "Deleted")
    /\ UNCHANGED <<nextId, quit, sd, mainPc>>

(* ------------------------------ lifecycle ----------------------------- *)

\* SIGINT or SIGTERM is delivered to quit (capacity 1) while the goroutine
\* waits on it; a later signal stays in the channel unread.
Signal ==
    /\ Serving
    /\ sd = "wait"
    /\ quit = 0
    /\ quit' = 1
    /\ UNCHANGED <<fs, req, nextId, sd, mainPc>>

\* The goroutine receives from quit and calls srv.Shutdown, which closes
\* the listener at once.
ShutdownBegin ==
    /\ Serving
    /\ sd = "wait"
    /\ quit = 1
    /\ quit' = 0
    /\ sd' = "shutdown"
    /\ UNCHANGED <<fs, req, nextId, mainPc>>

\* srv.Shutdown returns once every connection is idle.
ShutdownReturn ==
    /\ Serving
    /\ sd = "shutdown"
    /\ \A r \in Slots : req[r].pc = "idle"
    /\ sd' = "returned"
    /\ UNCHANGED <<fs, req, nextId, quit, mainPc>>

\* srv.ListenAndServe returns ErrServerClosed as soon as Shutdown has been
\* called; main returns and the process, with every goroutine, ends.
ServeReturn ==
    /\ Serving
    /\ sd \in {"shutdown", "returned"}
    /\ mainPc' = "exited"
    /\ UNCHANGED <<fs, req, nextId, quit, sd>>

(* --------------------------- specifications --------------------------- *)

Post(r) ==
    \/ PostForm(r) \/ PostOpen(r) \/ PostStat(r) \/ PostCreate(r)
    \/ PostCopy(r) \/ PostCopyReturn(r) \/ PostCheck(r)

Delete(r) == DeleteCheck(r) \/ DeleteRemove(r)

Lifecycle == Signal \/ ShutdownBegin \/ ShutdownReturn \/ ServeReturn

\* The running server: up to MaxConc requests handled concurrently, their
\* handlers interleaved between system calls.
Next == \E r \in Slots : AcceptPost(r) \/ AcceptDelete(r) \/ Post(r) \/ Delete(r) \/ Finish(r)

Spec == Init /\ [][Next]_vars

\* The whole life of the process, with requests that arrive one after the
\* other: none is accepted while another is being handled.
Alone == \A s \in Slots : req[s].pc = "idle"

NextSeq ==
    \/ \E r \in Slots : \/ Alone /\ AcceptPost(r)
                        \/ Alone /\ AcceptDelete(r)
                        \/ Post(r) \/ Delete(r) \/ Finish(r)
    \/ Lifecycle

SpecSeq == Init /\ [][NextSeq]_vars

\* Concurrent uploads: the running server receives POST requests only.
NextUploads == \E r \in Slots : AcceptPost(r) \/ Post(r) \/ Finish(r)

SpecUploads == Init /\ [][NextUploads]_vars

TypeOK ==
    /\ \A p \in DOMAIN fs : p = <<>> \/ IsDir(fs, Parent(p))
    /\ \A r \in Slots : req[r].pc \in {"idle", "post", "open", "stat", "create", "copy",
                                       "check", "delete", "remove", "done"}
    /\ nextId \in 1..(MaxReq + 1)
    /\ quit \in 0..1

(* ------------------------------- claims ------------------------------- *)

\* Slot r took a step.
Stepped(r) == req'[r] # req[r]

IsPost(r) == req[r].method = "POST" /\ req[r].pc # "idle"
IsDelete(r) == req[r].method = "DELETE" /\ req[r].pc # "idle"

\* The node a request's part j leaves when it is stored in full.
FullFile(q, j) == FileNode(<<q.id, j>>, Content(q.id, j, q.form.files[j].Size))

\* Part j of the request in slot r is stored at its destination, byte for byte.
Stored(r, j) ==
    /\ Exists(fs, FilePathOf(req[r], j))
    /\ fs[FilePathOf(req[r], j)] = FullFile(req[r], j)

\* C1: once a termination signal has been received the process does not exit
\* while a handler is still running: main has returned only if no request is
\* in flight.
C1_ExitOnlyAfterDrain == mainPc = "exited" => \A r \in Slots : ~Active(r)

\* C2: an upload part whose destination already holds a file (stored by an
\* earlier request, or by an earlier part of the same request) is answered
\* 409 "File already exists" and the filesystem, the stored file included,
\* is left as it was.
C2_SecondUploadConflicts ==
    [][\A r \in Slots :
         (req[r].pc = "stat" /\ Stepped(r) /\ Exists(fs, filePath(r)))
         => /\ req'[r].pc = "done"
            /\ req'[r].resp = Resp(409, "File already exists")
            /\ fs' = fs]_vars

\* Two parts of one request carry the same filename: the first is stored in
\* full, the second got the 409.
C2_Witness ==
    \E r \in Slots :
        /\ IsPost(r) /\ req[r].pc = "done"
        /\ Len(req[r].form.files) = 2 /\ req[r].i = 2
        /\ req[r].form.files[1].Filename = req[r].form.files[2].Filename
        /\ req[r].resp.code = 409
        /\ Stored(r, 1)

\* C3: when the copy fails (an error, or fewer bytes written than declared)
\* the request answers 500 "Error copying file" and nothing is left at the
\* destination; and when a POST handler returns, every file it created that
\* still exists holds exactly the declared number of chunks.
C3_FailedCopyRemoved ==
    [][\A r \in Slots :
         /\ (req[r].pc = "check" /\ Stepped(r)
               /\ (req[r].err \/ req[r].writtenSize # File(r).Size))
            => /\ req'[r].pc = "done"
               /\ req'[r].resp = Resp(500, "Error copying file")
               /\ ~Exists(fs', filePath(r))
         /\ (IsPost(r) /\ req[r].pc # "done" /\ req'[r].pc = "done")
            => \A p \in DOMAIN fs' :
                 (fs'[p].kind = "file" /\ fs'[p].ino[1] = req[r].id)
                 => Len(fs'[p].data) = req[r].form.files[fs'[p].ino[2]].Size]_vars

\* A copy that ended short without an error, a partial file on disk, was
\* rolled back.
C3_Witness ==
    \E r \in Slots :
        /\ IsPost(r) /\ req[r].pc = "done"
        /\ req[r].resp = Resp(500, "Error copying file")
        /\ ~req[r].err /\ req[r].writtenSize \in 1..(File(r).Size - 1)
        /\ ~Exists(fs, filePath(r))

\* C4: a DELETE whose raw path is "/", "", "*" or "/*", or whose target
\* resolves to the root directory itself, is answered 403 and changes
\* nothing in the filesystem.
C4_RootDeleteRefused ==
    [][\A r \in Slots :
         (req[r].pc = "delete" /\ Stepped(r)
            /\ (\/ req[r].url \in {Url(TRUE, <<>>), Url(FALSE, <<>>),
                                   Url(FALSE, <<"*">>), Url(TRUE, <<"*">>)}
                \/ Join(dirPrefix, req[r].url.segs) = dirPrefix))
         => /\ req'[r].pc = "done"
            /\ req'[r].resp.code = 403
            /\ fs' = fs]_vars

\* DELETE /d/.. resolves to the root and was refused, the root still there.
C4_Witness ==
    \E r \in Slots :
        /\ IsDelete(r) /\ req[r].pc = "done"
        /\ req[r].url = Url(TRUE, <<"d", "..">>)
        /\ req[r].resp = Resp(403, "Refusing to delete root directory")
        /\ IsDir(fs, dirPrefix)

\* C5: no step of a DELETE request removes a file or directory that is not
\* a strict descendant of the root directory.
C5_DeleteStaysInsideRoot ==
    [][\A r \in Slots :
         (IsDelete(r) /\ Stepped(r))
         => \A p \in DOMAIN fs \ DOMAIN fs' : IsPrefix(dirPrefix, p) /\ p # dirPrefix]_vars

\* C6: a DELETE that passes the guards answers 404 and changes nothing when
\* its target does not exist; removes exactly the target when it is a file;
\* removes the target and its descendants, and nothing else, when it is a
\* directory; and answers 200 in both of these cases.
C6_DeleteOutcome ==
    [][\A r \in Slots :
         LET path == Join(dirPrefix, req[r].url.segs)
             kept(gone) == /\ DOMAIN fs' = DOMAIN fs \ gone
                           /\ \A q \in DOMAIN fs' : fs'[q] = fs[q]
         IN
         /\ (req[r].pc = "delete" /\ Stepped(r)
               /\ req[r].url \notin {Url(TRUE, <<>>), Url(FALSE, <<>>),
                                     Url(FALSE, <<"*">>), Url(TRUE, <<"*">>)}
               /\ path # dirPrefix)
            => IF Exists(fs, path)
               THEN req'[r].pc = "remove" /\ fs' = fs
               ELSE /\ req'[r].pc = "done" /\ req'[r].resp.code = 404
                    /\ fs' = fs
         /\ (req[r].pc = "remove" /\ Stepped(r) /\ IsFile(fs, path))
            => req'[r].resp.code = 200 /\ kept({path})
         /\ (req[r].pc = "remove" /\ Stepped(r) /\ IsDir(fs, path))
            => req'[r].resp.code = 200 /\ kept({q \in DOMAIN fs : IsPrefix(path, q)})]_vars

\* DELETE /d answered 200 with the directory gone and the root still there.
C6_Witness ==
    \E r \in Slots :
        /\ IsDelete(r) /\ req[r].pc = "done"
        /\ req[r].url = Url(TRUE, <<"d">>) /\ req[r].isDir
        /\ req[r].resp = Resp(200, "Deleted")
        /\ ~Exists(fs, Join(dirPrefix, <<"d">>))
        /\ IsDir(fs, dirPrefix)

\* A POST of two parts with different filenames to a named directory, in
\* which no part failed to open or to copy, under an existing root.
TwoFiles(r) ==
    /\ IsPost(r) /\ req[r].pc = "done"
    /\ req[r].form.ok /\ req[r].form.name \in DirNames
    /\ Len(req[r].form.files) = 2
    /\ req[r].form.files[1].Filename # req[r].form.files[2].Filename
    /\ req[r].skipped = {}
    /\ req[r].resp.body # "Error copying file"
    /\ IsDir(fs, dirPrefix)

NotThereBefore(r, j) ==
    Exists(fs, FilePathOf(req[r], j)) => fs[FilePathOf(req[r], j)].ino[1] = req[r].id

Won(r, p) ==
    /\ IsPost(r) /\ req[r].pc # "post"
    /\ \E j \in 1..Len(req[r].form.files) :
         /\ FilePathOf(req[r], j) = p
         /\ j \notin req[r].skipped
         /\ \/ j < req[r].i
            \/ /\ j = req[r].i
               /\ \/ req[r].pc \in {"copy", "check"}
                  \/ req[r].pc = "done" /\ req[r].resp.body = "Error copying file"

\* No copy of the request in slot r has failed.
CopiesFine(r) ==
    /\ req[r].resp.body # "Error copying file"
    /\ req[r].pc = "check" => (~req[r].err /\ req[r].writtenSize = File(r).Size)

\* The request in slot r was turned away at destination p.
Lost(r, p) ==
    /\ IsPost(r) /\ req[r].pc = "done" /\ req[r].i \in 1..Len(req[r].form.files)
    /\ filePath(r) = p
    /\ ~Won(r, p)

C9_StoredFileStays ==
    [][\A p \in DOMAIN fs :
         (/\ fs[p].kind = "file"
          /\ \E r \in Slots :
               /\ IsPost(r) /\ req[r].pc = "done" /\ req[r].resp.code = 200
               /\ fs[p].ino[1] = req[r].id
               /\ fs[p] = FullFile(req[r], fs[p].ino[2])
          /\ (~Exists(fs', p) \/ fs'[p] # fs[p]))
         => \E d \in Slots :
               /\ IsDelete(d) /\ req[d].pc = "remove" /\ Stepped(d)
               /\ IsPrefix(Join(dirPrefix, req[d].url.segs), p)]_vars

\* C10: a POST answered 200 has stored every file part of its form.
C10_OkMeansAllStored ==
    \A r \in Slots :
        (IsPost(r) /\ req[r].pc = "done" /\ req[r].resp.code = 200)
        => \A j \in 1..Len(req[r].form.files) : Stored(r, j)

====
